---- MODULE Spec2Model ----
(***************************************************************************)
(* State-machine model of programs/agentbets/src/lib.rs: the parimutuel    *)
(* market (create_market, buy_shares, resolve_market, claim_winnings) and  *)
(* the CLOB market (create_clob_market, place_order, cancel_order,         *)
(* resolve_clob_market, claim_clob_winnings, match_against_asks/bids).     *)
(*                                                                         *)
(* Conventions.                                                            *)
(*  - Vec<T> is a sequence; Rust index i is TLA+ index i + 1.              *)
(*  - Option<T> is a sequence of length <= 1: << >> is None, <<x>> Some(x).*)
(*  - A handler is an operator from the accounts before the call to a      *)
(*    record [err, acc, ...]: err is "Ok" or the error the handler stops   *)
(*    with, acc the accounts as the handler left them at that point.       *)
(*    Execute commits acc when err = "Ok" and discards it otherwise, as    *)
(*    the host runtime does with the accounts of an instruction that       *)
(*    returns Err or panics.                                               *)
(*  - lamports are counted net of the rent-exempt minimum of each account. *)
(*  - u64 is scaled down to 0..U64_MAX so that TLC can enumerate it.       *)
(***************************************************************************)
EXTENDS Integers, Naturals, Sequences, FiniteSets, TLC

VARIABLES market, position, clob_market, order_book, clob_position,
          lamports, now, last

vars == <<market, position, clob_market, order_book, clob_position,
          lamports, now, last>>

\* ------------------------------------------------------------------ constants
MAX_ORDERS == 50
SHARE_PAYOUT == 10000
BPS_MAX == 10000

\* ------------------------------------------------------------------ bounds
\* the largest value of the (scaled) u64
U64_MAX == 1000000
\* lamports each trader starts with in the parimutuel behaviours
PariFunds == 850
\* lamports each trader starts with where both markets are resolved
ResolveFunds == 300
\* lamports t1 and t2 start with in the CLOB behaviours
ClobFundsT1 == 12000
ClobFundsT2 == 8000
\* the clock runs 0..MaxTime; markets are created with this deadline
MaxTime == 1
\* what the market account can still take in the overflow behaviours
Headroom == 400
\* a trader places an order only while fewer than MaxOpen of its orders rest
MaxOpen == 2
\* create_market is called with 2..MaxOutcomes outcomes
MaxOutcomes == 2
OutcomeCounts == 2..MaxOutcomes

Traders == {"t1", "t2"}
Authority == "auth"
\* a trader that filled one side of the book before the behaviours start
Maker == "mm"
Users == Traders \cup {Authority}
DefaultPubkey == "default"
MarketAcct == "market"
VaultAcct == "vault"
AllAccts == Users \cup {Maker, MarketAcct, VaultAcct}

Amounts == {0, 150, 700}
OutcomeIndexes == 0..MaxOutcomes

None == << >>
Some(x) == <<x>>

Min(a, b) == IF a < b THEN a ELSE b

RECURSIVE SumSeq(_)
SumSeq(s) == IF s = << >> THEN 0 ELSE Head(s) + SumSeq(Tail(s))

\* ------------------------------------------------------------------ accounts
\* the accounts an instruction reads and writes, as one record
Accounts ==
  [market |-> market, position |-> position, clob_market |-> clob_market,
   order_book |-> order_book, clob_position |-> clob_position,
   lamports |-> lamports]

\* u64 `+=`: panics when the build checks overflow, wraps otherwise
add_u64(a, b, overflow_checks) ==
  IF a + b <= U64_MAX THEN [panic |-> FALSE, val |-> a + b]
  ELSE IF overflow_checks THEN [panic |-> TRUE, val |-> a]
  ELSE [panic |-> FALSE, val |-> (a + b) % (U64_MAX + 1)]

\* system_program::transfer(from -> to, amount): fails on insufficient funds
\* and when the recipient's u64 balance cannot hold the amount
transfer(lp, from, to, amount) ==
  IF lp[from] < amount
  THEN [ok |-> FALSE, err |-> "InsufficientFunds", lamports |-> lp]
  ELSE IF lp[to] + amount > U64_MAX
  THEN [ok |-> FALSE, err |-> "ArithmeticOverflow", lamports |-> lp]
  ELSE [ok |-> TRUE, err |-> "Ok",
        lamports |-> [lp EXCEPT ![from] = @ - amount, ![to] = @ + amount]]

\* direct lamport moves (`**a.lamports -= x; **b.lamports += x`): an underflow
\* or an overflow of a u64 balance panics or leaves the instruction
\* unbalanced; the instruction fails either way
move_lamports(lp, from, to, amount) ==
  IF lp[from] < amount \/ lp[to] + amount > U64_MAX
  THEN [ok |-> FALSE, lamports |-> lp]
  ELSE [ok |-> TRUE,
        lamports |-> [lp EXCEPT ![from] = @ - amount, ![to] = @ + amount]]

\* ------------------------------------------------------------------ parimutuel
EmptyPosition == [owner |-> DefaultPubkey, shares |-> << >>]

create_market(authority, n_outcomes) ==
  IF ~(n_outcomes >= 2 /\ n_outcomes <= 10)
  THEN [err |-> "InvalidOutcomeCount", market |-> << >>]
  ELSE [err |-> "Ok",
        market |-> [authority |-> authority,
                    outcomes |-> n_outcomes,
                    outcome_pools |-> [i \in 1..n_outcomes |-> 0],
                    total_pool |-> 0,
                    resolved |-> FALSE,
                    winning_outcome |-> None]]

\* lines 67-69: the stake is added to the outcome's pool and to the total
buy_credit_pools_NoTotal(m, idx, amount, p1, p2) ==
  [m EXCEPT !.outcome_pools[idx] = p1.val]

buy_credit_pools_NoPool(m, idx, amount, p1, p2) ==
  [m EXCEPT !.total_pool = p2.val]

buy_credit_pools(m, idx, amount, p1, p2) ==
  [m EXCEPT !.outcome_pools[idx] = p1.val, !.total_pool = p2.val]

\* lines 55-56: the require! checks, in order
buy_shares_checks_NoResolved(m, outcome_index) ==
  IF ~(outcome_index < m.outcomes) THEN "InvalidOutcome" ELSE "Ok"

buy_shares_checks(m, outcome_index) ==
  IF m.resolved THEN "MarketResolved"
  ELSE IF ~(outcome_index < m.outcomes) THEN "InvalidOutcome"
  ELSE "Ok"

buy_shares(acc, buyer, outcome_index, amount, overflow_checks) ==
  LET m == acc.market
      idx == outcome_index + 1
  IN
  IF buy_shares_checks(m, outcome_index) # "Ok"
  THEN [err |-> buy_shares_checks(m, outcome_index), acc |-> acc]
  ELSE
    LET t == transfer(acc.lamports, buyer, MarketAcct, amount)
        acc1 == [acc EXCEPT !.lamports = t.lamports]
    IN
    IF ~t.ok THEN [err |-> t.err, acc |-> acc1]
    ELSE
      LET shares == amount
          p1 == add_u64(m.outcome_pools[idx], shares, overflow_checks)
          p2 == add_u64(m.total_pool, amount, overflow_checks)
          m1 == [m EXCEPT !.outcome_pools[idx] = p1.val]
          m2 == buy_credit_pools(m, idx, amount, p1, p2)
          pos == acc.position[buyer]
          pos1 == IF pos.shares = << >>
                  THEN [owner |-> buyer, shares |-> [i \in 1..m.outcomes |-> 0]]
                  ELSE pos
          p3 == add_u64(pos1.shares[idx], shares, overflow_checks)
          pos2 == [pos1 EXCEPT !.shares[idx] = p3.val]
      IN
      IF p1.panic THEN [err |-> "ProgramFailed", acc |-> acc1]
      ELSE IF p2.panic THEN [err |-> "ProgramFailed", acc |-> [acc1 EXCEPT !.market = m1]]
      ELSE IF p3.panic
        THEN [err |-> "ProgramFailed",
              acc |-> [acc1 EXCEPT !.market = m2, !.position[buyer] = pos1]]
      ELSE [err |-> "Ok",
            acc |-> [acc1 EXCEPT !.market = m2, !.position[buyer] = pos2]]

resolve_market_NoResolvedCheck(acc, caller, winning_outcome) ==
  LET m == acc.market IN
  IF ~(caller = m.authority) THEN [err |-> "Unauthorized", acc |-> acc]
  ELSE IF ~(winning_outcome < m.outcomes) THEN [err |-> "InvalidOutcome", acc |-> acc]
  ELSE [err |-> "Ok",
        acc |-> [acc EXCEPT !.market.resolved = TRUE,
                            !.market.winning_outcome = Some(winning_outcome)]]

resolve_market(acc, caller, winning_outcome) ==
  LET m == acc.market IN
  IF m.resolved THEN [err |-> "MarketAlreadyResolved", acc |-> acc]
  ELSE IF ~(caller = m.authority) THEN [err |-> "Unauthorized", acc |-> acc]
  ELSE IF ~(winning_outcome < m.outcomes) THEN [err |-> "InvalidOutcome", acc |-> acc]
  ELSE [err |-> "Ok",
        acc |-> [acc EXCEPT !.market.resolved = TRUE,
                            !.market.winning_outcome = Some(winning_outcome)]]

\* lines 113-117: widened multiply, divide, truncate back to u64
payout_of_OneForOne(winner_shares, total_pool, total_winning_shares) ==
  [panic |-> FALSE, val |-> winner_shares]

payout_of_WholePool(winner_shares, total_pool, total_winning_shares) ==
  [panic |-> FALSE, val |-> total_pool]

payout_of(winner_shares, total_pool, total_winning_shares) ==
  IF total_winning_shares = 0 THEN [panic |-> TRUE, val |-> 0]
  ELSE [panic |-> FALSE,
        val |-> ((winner_shares * total_pool) \div total_winning_shares)
                  % (U64_MAX + 1)]

\* line 122: the claimed balance is cleared
clear_claimed_Keep(shares, w) == shares

clear_claimed(shares, w) == [shares EXCEPT ![w] = 0]

claim_winnings(acc, claimer) ==
  LET m == acc.market
      pos == acc.position[claimer]
  IN
  IF ~m.resolved THEN [err |-> "MarketNotResolved", acc |-> acc, paid |-> 0]
  ELSE IF m.winning_outcome = None THEN [err |-> "ProgramFailed", acc |-> acc, paid |-> 0]
  ELSE
    LET w == m.winning_outcome[1] + 1
        winner_shares == pos.shares[w]
    IN
    IF ~(winner_shares > 0) THEN [err |-> "NoWinningShares", acc |-> acc, paid |-> 0]
    ELSE
      LET total_winning_shares == m.outcome_pools[w]
          po == payout_of(winner_shares, m.total_pool, total_winning_shares)
          fee == po.val \div 50
          net_payout == po.val - fee
          acc1 == [acc EXCEPT !.position[claimer].shares = clear_claimed(@, w)]
          mv == move_lamports(acc.lamports, MarketAcct, claimer, net_payout)
      IN
      IF po.panic THEN [err |-> "ProgramFailed", acc |-> acc, paid |-> 0]
      ELSE IF ~mv.ok THEN [err |-> "ProgramFailed", acc |-> acc1, paid |-> 0]
      ELSE [err |-> "Ok", acc |-> [acc1 EXCEPT !.lamports = mv.lamports],
            paid |-> net_payout]

\* ------------------------------------------------------------------ CLOB
Sides == {0, 1}
Prices == {6000}
Sizes == {1, 2}
\* the smallest sizes whose collateral at 6000 bps, and at 4000 bps, does not
\* fit the u64
HugeSizes == {U64_MAX \div 6000 + 1, U64_MAX \div 4000 + 1}
\* <<price, size>> pairs with a price or a size that place_order rejects
BadOrderInputs == {<<0, 1>>, <<10000, 2>>, <<6000, 0>>, <<0, 0>>}
OrderIndexes == 0..3
WinningSides == 0..2

EmptyClobPosition == [owner |-> DefaultPubkey, yes_shares |-> 0, no_shares |-> 0]

checked_mul_Wrapping(a, b) == Some((a * b) % (U64_MAX + 1))

checked_mul(a, b) == IF a * b <= U64_MAX THEN Some(a * b) ELSE None
checked_add(a, b) == IF a + b <= U64_MAX THEN Some(a + b) ELSE None

\* Vec::remove(i) and Vec::insert(i, x), i 0-based
VecRemove(v, i) == SubSeq(v, 1, i) \o SubSeq(v, i + 2, Len(v))
VecInsert(v, i, x) == SubSeq(v, 1, i) \o <<x>> \o SubSeq(v, i + 1, Len(v))

\* iter().position(..).unwrap_or(len), 0-based, over the positions hit
FirstIndex(hits, len) ==
  IF hits = {} THEN len
  ELSE (CHOOSE k \in hits : \A j \in hits : k <= j) - 1

create_clob_market(authority, resolution_time) ==
  [clob_market |-> [authority |-> authority,
                    resolution_time |-> resolution_time,
                    resolved |-> FALSE,
                    winning_side |-> None],
   order_book |-> [yes_bids |-> << >>, yes_asks |-> << >>]]

\* lines 395 and 428: the loop stops at the first resting order outside the limit
ask_outside_limit_Always(max_price, best_ask) == TRUE

ask_outside_limit(max_price, best_ask) == max_price < best_ask.price

bid_outside_limit(min_price, best_bid) == min_price > best_bid.price

\* lines 399 and 432
fill_size_of_WholeOrder(size, best) == best.size

fill_size_of(size, best) == Min(size, best.size)

\* the result is [err, book, shares, size, fills]: the book side and the share
\* balance as the loop left them, the unfilled size, and the fills made as
\* <<maker price, fill size>> pairs (the msg! lines 413 and 446)
RECURSIVE match_against_asks(_, _, _, _, _)
match_against_asks(yes_asks, yes_shares, max_price, size, fills) ==
  IF ~(size > 0 /\ yes_asks # << >>)
  THEN [err |-> "Ok", book |-> yes_asks, shares |-> yes_shares, size |-> size,
        fills |-> fills]
  ELSE
    LET best_ask == yes_asks[1] IN
    IF ask_outside_limit(max_price, best_ask)
    THEN [err |-> "Ok", book |-> yes_asks, shares |-> yes_shares, size |-> size,
          fills |-> fills]
    ELSE
      LET fill_size == fill_size_of(size, best_ask)
          fill_price == best_ask.price
          credited == checked_add(yes_shares, fill_size)
      IN
      IF credited = None
      THEN [err |-> "Overflow", book |-> yes_asks, shares |-> yes_shares,
            size |-> size, fills |-> fills]
      ELSE
        match_against_asks(
          IF fill_size = best_ask.size
          THEN VecRemove(yes_asks, 0)
          ELSE [yes_asks EXCEPT ![1].size = @ - fill_size],
          credited[1], max_price, size - fill_size,
          Append(fills, <<fill_price, fill_size>>))

RECURSIVE match_against_bids(_, _, _, _, _)
match_against_bids(yes_bids, no_shares, min_price, size, fills) ==
  IF ~(size > 0 /\ yes_bids # << >>)
  THEN [err |-> "Ok", book |-> yes_bids, shares |-> no_shares, size |-> size,
        fills |-> fills]
  ELSE
    LET best_bid == yes_bids[1] IN
    IF bid_outside_limit(min_price, best_bid)
    THEN [err |-> "Ok", book |-> yes_bids, shares |-> no_shares, size |-> size,
          fills |-> fills]
    ELSE
      LET fill_size == fill_size_of(size, best_bid)
          fill_price == best_bid.price
          credited == checked_add(no_shares, fill_size)
      IN
      IF credited = None
      THEN [err |-> "Overflow", book |-> yes_bids, shares |-> no_shares,
            size |-> size, fills |-> fills]
      ELSE
        match_against_bids(
          IF fill_size = best_bid.size
          THEN VecRemove(yes_bids, 0)
          ELSE [yes_bids EXCEPT ![1].size = @ - fill_size],
          credited[1], min_price, size - fill_size,
          Append(fills, <<fill_price, fill_size>>))

\* lines 202-207
effective_order_KeepSide(side, is_yes, price) ==
  IF is_yes THEN [side |-> side, price |-> price]
  ELSE [side |-> side, price |-> BPS_MAX - price]

effective_order(side, is_yes, price) ==
  IF is_yes THEN [side |-> side, price |-> price]
  ELSE [side |-> IF side = 0 THEN 1 ELSE 0, price |-> BPS_MAX - price]

\* lines 210-214
collateral_required_of_BidFormula(effective_side, effective_price, size) ==
  checked_mul(effective_price, size)

collateral_required_of(effective_side, effective_price, size) ==
  IF effective_side = 0
  THEN checked_mul(effective_price, size)
  ELSE checked_mul(BPS_MAX - effective_price, size)

\* lines 261-264 and 289-292
bid_insert_idx_Append(yes_bids, effective_price) == Len(yes_bids)

bid_insert_idx(yes_bids, effective_price) ==
  FirstIndex({k \in 1..Len(yes_bids) : yes_bids[k].price < effective_price},
             Len(yes_bids))

ask_insert_idx_BeforeEquals(yes_asks, effective_price) ==
  FirstIndex({k \in 1..Len(yes_asks) : yes_asks[k].price >= effective_price},
             Len(yes_asks))

ask_insert_idx(yes_asks, effective_price) ==
  FirstIndex({k \in 1..Len(yes_asks) : yes_asks[k].price > effective_price},
             Len(yes_asks))

\* the Order pushed on the book; escrow and placed are history fields (the
\* collateral escrowed by the placing call and the size of the whole order)
new_order(trader, effective_price, remaining_size, clock, escrow, placed) ==
  [owner |-> trader, price |-> effective_price, size |-> remaining_size,
   timestamp |-> clock, order_id |-> clock, escrow |-> escrow, placed |-> placed]

\* lines 251 and 279: a remainder rests only on a side with room
book_side_full_Never(orders) == FALSE

book_side_full(orders) == ~(Len(orders) < MAX_ORDERS)

\* lines 192-199: the require! checks, in order
place_order_checks_NoExpiry(m, price, size, clock) ==
  IF ~(price > 0 /\ price < BPS_MAX) THEN "InvalidPrice"
  ELSE IF ~(size > 0) THEN "InvalidSize"
  ELSE IF m.resolved THEN "MarketResolved"
  ELSE "Ok"

place_order_checks(m, price, size, clock) ==
  IF ~(price > 0 /\ price < BPS_MAX) THEN "InvalidPrice"
  ELSE IF ~(size > 0) THEN "InvalidSize"
  ELSE IF m.resolved THEN "MarketResolved"
  ELSE IF ~(clock < m.resolution_time) THEN "MarketExpired"
  ELSE "Ok"

\* lines 656-663: the position account of the instruction is the PDA seeded
\* with the trader's key, so what the matcher credits is written to the
\* trader's own position and to no other
store_position_SharedAccount(positions, trader, pos) ==
  [u \in DOMAIN positions |-> pos]

store_position(positions, trader, pos) ==
  [positions EXCEPT ![trader] = pos]

place_order(acc, trader, side, is_yes, price, size, clock) ==
  LET none == [err |-> "Ok", acc |-> acc, paid |-> 0, fills |-> << >>, remaining |-> size]
      eff == effective_order(side, is_yes, price)
      collateral == collateral_required_of(eff.side, eff.price, size)
  IN
  IF place_order_checks(acc.clob_market, price, size, clock) # "Ok"
  THEN [none EXCEPT !.err = place_order_checks(acc.clob_market, price, size, clock)]
  ELSE IF collateral = None THEN [none EXCEPT !.err = "Overflow"]
  ELSE
    LET t == transfer(acc.lamports, trader, VaultAcct, collateral[1])
        pos == acc.clob_position[trader]
        pos1 == IF pos.owner = DefaultPubkey
                THEN [owner |-> trader, yes_shares |-> 0, no_shares |-> 0]
                ELSE pos
        acc1 == [acc EXCEPT !.lamports = t.lamports, !.clob_position[trader] = pos1]
        book == acc.order_book
    IN
    IF ~t.ok THEN [none EXCEPT !.err = t.err]
    ELSE IF eff.side = 0
    THEN
      LET mt == match_against_asks(book.yes_asks, pos1.yes_shares, eff.price, size, << >>)
          acc2 == [acc1 EXCEPT !.order_book.yes_asks = mt.book,
                               !.clob_position =
                                  store_position(@, trader,
                                    [pos1 EXCEPT !.yes_shares = mt.shares])]
          out == [err |-> mt.err, acc |-> acc2, paid |-> collateral[1],
                  fills |-> mt.fills, remaining |-> mt.size]
          order == new_order(trader, eff.price, mt.size, clock, collateral[1], size)
      IN
      IF mt.err # "Ok" THEN out
      ELSE IF mt.size > 0
      THEN
        IF book_side_full(book.yes_bids) THEN [out EXCEPT !.err = "OrderBookFull"]
        ELSE [out EXCEPT !.acc.order_book.yes_bids =
                VecInsert(@, bid_insert_idx(@, eff.price), order)]
      ELSE out
    ELSE
      LET mt == match_against_bids(book.yes_bids, pos1.no_shares, eff.price, size, << >>)
          acc2 == [acc1 EXCEPT !.order_book.yes_bids = mt.book,
                               !.clob_position =
                                  store_position(@, trader,
                                    [pos1 EXCEPT !.no_shares = mt.shares])]
          out == [err |-> mt.err, acc |-> acc2, paid |-> collateral[1],
                  fills |-> mt.fills, remaining |-> mt.size]
          order == new_order(trader, eff.price, mt.size, clock, collateral[1], size)
      IN
      IF mt.err # "Ok" THEN out
      ELSE IF mt.size > 0
      THEN
        IF book_side_full(book.yes_asks) THEN [out EXCEPT !.err = "OrderBookFull"]
        ELSE [out EXCEPT !.acc.order_book.yes_asks =
                VecInsert(@, ask_insert_idx(@, eff.price), order)]
      ELSE out

\* lines 324-328
refund_of_BidFormula(is_bid, order) == checked_mul(order.price, order.size)

refund_of(is_bid, order) ==
  IF is_bid
  THEN checked_mul(order.price, order.size)
  ELSE checked_mul(BPS_MAX - order.price, order.size)

cancel_order_NoOwnerCheck(acc, trader, is_bid, order_index) ==
  LET orders == IF is_bid THEN acc.order_book.yes_bids ELSE acc.order_book.yes_asks
      none == [err |-> "Ok", acc |-> acc, paid |-> 0]
  IN
  IF ~(order_index < Len(orders)) THEN [none EXCEPT !.err = "InvalidOrderIndex"]
  ELSE
    LET order == orders[order_index + 1]
        refund == refund_of(is_bid, order)
        removed == VecRemove(orders, order_index)
        acc1 == IF is_bid
                THEN [acc EXCEPT !.order_book.yes_bids = removed]
                ELSE [acc EXCEPT !.order_book.yes_asks = removed]
    IN
    IF refund = None THEN [none EXCEPT !.err = "Overflow"]
    ELSE
      LET mv == move_lamports(acc.lamports, VaultAcct, trader, refund[1]) IN
      IF ~mv.ok THEN [err |-> "ProgramFailed", acc |-> acc1, paid |-> 0]
      ELSE [err |-> "Ok", acc |-> [acc1 EXCEPT !.lamports = mv.lamports],
            paid |-> refund[1]]

cancel_order(acc, trader, is_bid, order_index) ==
  LET orders == IF is_bid THEN acc.order_book.yes_bids ELSE acc.order_book.yes_asks
      none == [err |-> "Ok", acc |-> acc, paid |-> 0]
  IN
  IF ~(order_index < Len(orders)) THEN [none EXCEPT !.err = "InvalidOrderIndex"]
  ELSE
    LET order == orders[order_index + 1]
        refund == refund_of(is_bid, order)
        removed == VecRemove(orders, order_index)
        acc1 == IF is_bid
                THEN [acc EXCEPT !.order_book.yes_bids = removed]
                ELSE [acc EXCEPT !.order_book.yes_asks = removed]
    IN
    IF ~(order.owner = trader) THEN [none EXCEPT !.err = "NotOrderOwner"]
    ELSE IF refund = None THEN [none EXCEPT !.err = "Overflow"]
    ELSE
      LET mv == move_lamports(acc.lamports, VaultAcct, trader, refund[1]) IN
      IF ~mv.ok THEN [err |-> "ProgramFailed", acc |-> acc1, paid |-> 0]
      ELSE [err |-> "Ok", acc |-> [acc1 EXCEPT !.lamports = mv.lamports],
            paid |-> refund[1]]

resolve_clob_market_NoAuthCheck(acc, caller, winning_side) ==
  LET m == acc.clob_market IN
  IF ~(winning_side <= 1) THEN [err |-> "InvalidOutcome", acc |-> acc]
  ELSE IF m.resolved THEN [err |-> "AlreadyResolved", acc |-> acc]
  ELSE [err |-> "Ok",
        acc |-> [acc EXCEPT !.clob_market.resolved = TRUE,
                            !.clob_market.winning_side = Some(winning_side)]]

resolve_clob_market(acc, caller, winning_side) ==
  LET m == acc.clob_market IN
  IF ~(winning_side <= 1) THEN [err |-> "InvalidOutcome", acc |-> acc]
  ELSE IF m.resolved THEN [err |-> "AlreadyResolved", acc |-> acc]
  ELSE IF ~(caller = m.authority) THEN [err |-> "Unauthorized", acc |-> acc]
  ELSE [err |-> "Ok",
        acc |-> [acc EXCEPT !.clob_market.resolved = TRUE,
                            !.clob_market.winning_side = Some(winning_side)]]

\* lines 365-369
clob_payout_of_YesOnly(winning_side, pos) ==
  checked_mul(pos.yes_shares, SHARE_PAYOUT)

clob_payout_of(winning_side, pos) ==
  IF winning_side = 0
  THEN checked_mul(pos.yes_shares, SHARE_PAYOUT)
  ELSE checked_mul(pos.no_shares, SHARE_PAYOUT)

claim_clob_winnings(acc, claimer) ==
  LET m == acc.clob_market
      pos == acc.clob_position[claimer]
      none == [err |-> "Ok", acc |-> acc, paid |-> 0]
  IN
  IF ~m.resolved THEN [none EXCEPT !.err = "NotResolved"]
  ELSE IF m.winning_side = None THEN [none EXCEPT !.err = "ProgramFailed"]
  ELSE
    LET winning_side == m.winning_side[1]
        payout == clob_payout_of(winning_side, pos)
    IN
    IF payout = None THEN [none EXCEPT !.err = "Overflow"]
    ELSE IF ~(payout[1] > 0) THEN [none EXCEPT !.err = "NoWinnings"]
    ELSE
      LET acc1 == [acc EXCEPT !.clob_position[claimer].yes_shares = 0,
                              !.clob_position[claimer].no_shares = 0]
          mv == move_lamports(acc.lamports, VaultAcct, claimer, payout[1])
      IN
      IF ~mv.ok THEN [err |-> "ProgramFailed", acc |-> acc1, paid |-> 0]
      ELSE [err |-> "Ok", acc |-> [acc1 EXCEPT !.lamports = mv.lamports],
            paid |-> payout[1]]

\* ------------------------------------------------------------------ instructions
\* what the last instruction was and how it ended (history, read by no handler)
Call(op, caller, r, paid, fills) ==
  [op |-> op, caller |-> caller, err |-> r.err, paid |-> paid, fills |-> fills]

Commit(acc) ==
  /\ market' = acc.market
  /\ position' = acc.position
  /\ clob_market' = acc.clob_market
  /\ order_book' = acc.order_book
  /\ clob_position' = acc.clob_position
  /\ lamports' = acc.lamports

\* an instruction that returns Err (or panics) leaves no account changed
Execute_NoRollback(r, call) ==
  /\ Commit(r.acc)
  /\ last' = call
  /\ UNCHANGED now

Execute(r, call) ==
  /\ IF r.err = "Ok"
     THEN Commit(r.acc)
     ELSE UNCHANGED <<market, position, clob_market, order_book, clob_position,
                      lamports>>
  /\ last' = call
  /\ UNCHANGED now

BuyShares ==
  \E buyer \in Traders, outcome_index \in OutcomeIndexes, amount \in Amounts,
     overflow_checks \in BOOLEAN :
    LET r == buy_shares(Accounts, buyer, outcome_index, amount, overflow_checks) IN
    Execute(r, Call("buy_shares", buyer, r,
                    IF r.err = "Ok" THEN amount ELSE 0, << >>))

ResolveMarket ==
  \E caller \in Users, winning_outcome \in OutcomeIndexes :
    LET r == resolve_market(Accounts, caller, winning_outcome) IN
    Execute(r, Call("resolve_market", caller, r, 0, << >>))

\* ClaimWinnings' account constraints (lines 585-591) admit the claimer's own,
\* initialised position only
ClaimWinnings ==
  \E claimer \in Traders :
    /\ position[claimer].owner = claimer
    /\ LET r == claim_winnings(Accounts, claimer) IN
       Execute(r, Call("claim_winnings", claimer, r, r.paid, << >>))

OpenOrders(trader) ==
  Cardinality({i \in 1..Len(order_book.yes_bids) : order_book.yes_bids[i].owner = trader})
  + Cardinality({i \in 1..Len(order_book.yes_asks) : order_book.yes_asks[i].owner = trader})

PlaceOrder ==
  \E trader \in Traders, side \in Sides, is_yes \in BOOLEAN, price \in Prices,
     size \in Sizes :
    /\ OpenOrders(trader) < MaxOpen
    /\ LET r == place_order(Accounts, trader, side, is_yes, price, size, now) IN
       Execute(r, Call("place_order", trader, r,
                       r.paid, r.fills))

\* place_order called with a price or a size outside the accepted range
PlaceBadOrder ==
  \E trader \in Traders, side \in Sides, is_yes \in BOOLEAN, in \in BadOrderInputs :
    LET r == place_order(Accounts, trader, side, is_yes, in[1], in[2], now) IN
    Execute(r, Call("place_order", trader, r, r.paid, r.fills))

\* place_order called with a size whose collateral may not fit the u64
PlaceHugeOrder ==
  \E trader \in Traders, side \in Sides, is_yes \in BOOLEAN, price \in Prices,
     size \in HugeSizes :
    LET r == place_order(Accounts, trader, side, is_yes, price, size, now) IN
    Execute(r, Call("place_order", trader, r, r.paid, r.fills))

CancelOrder ==
  \E trader \in Traders, is_bid \in BOOLEAN, order_index \in OrderIndexes :
    LET r == cancel_order(Accounts, trader, is_bid, order_index) IN
    Execute(r, Call("cancel_order", trader, r,
                    r.paid, << >>))

ResolveClobMarket ==
  \E caller \in Users, winning_side \in WinningSides :
    LET r == resolve_clob_market(Accounts, caller, winning_side) IN
    Execute(r, Call("resolve_clob_market", caller, r, 0, << >>))

\* ClaimClobWinnings' account constraints (lines 714-720)
ClaimClobWinnings ==
  \E claimer \in Traders :
    /\ clob_position[claimer].owner = claimer
    /\ LET r == claim_clob_winnings(Accounts, claimer) IN
       Execute(r, Call("claim_clob_winnings", claimer, r, r.paid, << >>))

\* the Clock sysvar advances between instructions
Tick ==
  /\ now < MaxTime
  /\ now' = now + 1
  /\ last' = [op |-> "tick", caller |-> DefaultPubkey, err |-> "Ok", paid |-> 0,
              fills |-> << >>]
  /\ UNCHANGED <<market, position, clob_market, order_book, clob_position, lamports>>

\* ------------------------------------------------------------------ behaviours
Holders == Users \cup {Maker}

PariWallets == [t \in Traders |-> PariFunds]
ClobWallets == [t \in Traders |-> IF t = "t1" THEN ClobFundsT1 ELSE ClobFundsT2]

Created(op) ==
  [op |-> op, caller |-> Authority, err |-> "Ok", paid |-> 0, fills |-> << >>]

\* the parimutuel market after create_market, the CLOB market after
\* create_clob_market, nobody holding a position
InitWith(n_outcomes, funds) ==
  /\ market = create_market(Authority, n_outcomes).market
  /\ position = [u \in Holders |-> EmptyPosition]
  /\ clob_market = create_clob_market(Authority, MaxTime).clob_market
  /\ order_book = create_clob_market(Authority, MaxTime).order_book
  /\ clob_position = [u \in Holders |-> EmptyClobPosition]
  /\ lamports = [a \in AllAccts |-> IF a \in Traders THEN funds[a] ELSE 0]
  /\ now = 0

InitPari ==
  /\ \E n_outcomes \in OutcomeCounts :
       /\ create_market(Authority, n_outcomes).err = "Ok"
       /\ InitWith(n_outcomes, PariWallets)
  /\ last = Created("create_market")

NextPari == BuyShares \/ ResolveMarket \/ ClaimWinnings

SpecPari == InitPari /\ [][NextPari]_vars

\* the parimutuel market together with the resolution of the CLOB market
NextResolve == NextPari \/ ResolveClobMarket

InitResolve ==
  /\ \E n_outcomes \in OutcomeCounts :
       /\ create_market(Authority, n_outcomes).err = "Ok"
       /\ InitWith(n_outcomes, [t \in Traders |-> ResolveFunds])
  /\ last = Created("create_clob_market")

SpecResolve == InitResolve /\ [][NextResolve]_vars

\* the book after Maker placed MAX_ORDERS YES bids of one share at the lowest
\* price (1 bps) at time 0: MAX_ORDERS successful place_order calls
PreloadedBids ==
  [i \in 1..MAX_ORDERS |-> new_order(Maker, 1, 1, 0, 1, 1)]

\* or MAX_ORDERS YES asks of one share at the highest price (9999 bps), each
\* escrowing (10000 - 9999) * 1
PreloadedAsks ==
  [i \in 1..MAX_ORDERS |-> new_order(Maker, BPS_MAX - 1, 1, 0, 1, 1)]

InitClob ==
  /\ InitWith(2, ClobWallets)
  /\ last = Created("create_clob_market")

NextClob ==
  PlaceOrder \/ CancelOrder \/ ResolveClobMarket \/ ClaimClobWinnings \/ Tick

SpecClob == InitClob /\ [][NextClob]_vars

InitFull ==
  /\ market = create_market(Authority, 2).market
  /\ position = [u \in Holders |-> EmptyPosition]
  /\ clob_market = create_clob_market(Authority, MaxTime).clob_market
  /\ order_book \in {[yes_bids |-> PreloadedBids, yes_asks |-> << >>],
                     [yes_bids |-> << >>, yes_asks |-> PreloadedAsks]}
  /\ clob_position =
       [u \in Holders |-> IF u = Maker
                          THEN [owner |-> Maker, yes_shares |-> 0, no_shares |-> 0]
                          ELSE EmptyClobPosition]
  /\ lamports = [a \in AllAccts |-> IF a \in Traders THEN ClobWallets[a]
                                   ELSE IF a = VaultAcct THEN MAX_ORDERS ELSE 0]
  /\ now = 0
  /\ last = [op |-> "place_order", caller |-> Maker, err |-> "Ok", paid |-> 1,
             fills |-> << >>]

SpecFull == InitFull /\ [][NextClob]_vars

\* the CLOB market called with valid and invalid orders, both traders holding
\* ClobFundsT2
InitValidate ==
  /\ InitWith(2, [t \in Traders |-> ClobFundsT2])
  /\ last = Created("create_clob_market")

NextValidate == NextClob \/ PlaceBadOrder

SpecValidate == InitValidate /\ [][NextValidate]_vars

\* the parimutuel market after Maker staked all but Headroom of what a u64
\* holds on outcome 0 (one successful buy_shares)
InitOverflow ==
  /\ market = [create_market(Authority, 2).market
                 EXCEPT !.outcome_pools = <<U64_MAX - Headroom, 0>>,
                        !.total_pool = U64_MAX - Headroom]
  /\ position = [u \in Holders |->
                   IF u = Maker
                   THEN [owner |-> Maker, shares |-> <<U64_MAX - Headroom, 0>>]
                   ELSE EmptyPosition]
  /\ clob_market = create_clob_market(Authority, MaxTime).clob_market
  /\ order_book = create_clob_market(Authority, MaxTime).order_book
  /\ clob_position = [u \in Holders |-> EmptyClobPosition]
  /\ lamports = [a \in AllAccts |-> IF a \in Traders THEN PariWallets[a]
                                   ELSE IF a = MarketAcct THEN U64_MAX - Headroom
                                   ELSE 0]
  /\ now = 0
  /\ last = [op |-> "buy_shares", caller |-> Maker, err |-> "Ok",
             paid |-> U64_MAX - Headroom, fills |-> << >>]

NextOverflow == NextPari \/ PlaceHugeOrder

SpecOverflow == InitOverflow /\ [][NextOverflow]_vars

\* ------------------------------------------------------------------ claims
Bids == order_book.yes_bids
Asks == order_book.yes_asks

\* C1: in a parimutuel market the outcome pools add up to total_pool after
\* create_market and after every buy_shares call, accepted or rejected.
C1_PoolsSumToTotal == SumSeq(market.outcome_pools) = market.total_pool

\* a rejected buy_shares after accepted buys into two different outcomes
C1_Witness ==
  /\ last.op = "buy_shares"
  /\ last.err # "Ok"
  /\ market.outcome_pools[1] > 0
  /\ market.outcome_pools[2] > 0

\* C2: in every reachable book yes_bids is non-increasing in price and
\* yes_asks is non-decreasing in price.
C2_BookSorted ==
  /\ \A i, j \in 1..Len(Bids) : i < j => Bids[i].price >= Bids[j].price
  /\ \A i, j \in 1..Len(Asks) : i < j => Asks[i].price <= Asks[j].price

\* a cancel_order took one of three bids off the book and left bids at two
\* different prices
C2_Witness ==
  /\ last.op = "cancel_order"
  /\ last.err = "Ok"
  /\ Len(Bids) >= 2
  /\ Bids[1].price > Bids[Len(Bids)].price

\* C3: the book is never crossed at rest: when both sides hold orders, the
\* best bid is strictly below the best ask.
C3_NotCrossed ==
  (Len(Bids) > 0 /\ Len(Asks) > 0) => Bids[1].price < Asks[1].price

\* a place_order matched against the book and both sides still hold orders
C3_Witness ==
  /\ last.op = "place_order"
  /\ last.err = "Ok"
  /\ last.fills # << >>
  /\ Len(Bids) > 0
  /\ Len(Asks) > 0

\* ---- the outcome of a place_order call, stated without the matching loop
WithinLimit(eff, o) ==
  IF eff.side = 0 THEN o.price <= eff.price ELSE o.price >= eff.price

\* the total size of the first k orders of a side
SizeSum(orders, k) == SumSeq([i \in 1..k |-> orders[i].size])

\* how many orders at the head of the opposite side are within the limit
HeadRun(opp, eff) ==
  CHOOSE k \in 0..Len(opp) :
    /\ \A i \in 1..k : WithinLimit(eff, opp[i])
    /\ k = Len(opp) \/ ~WithinLimit(eff, opp[k + 1])

ExpectedFill(opp, eff, n) == Min(n, SizeSum(opp, HeadRun(opp, eff)))

\* the opposite side once f shares were taken from its head
ExpectedOpposite(opp, f) ==
  LET j == CHOOSE k \in 0..Len(opp) :
             /\ SizeSum(opp, k) <= f
             /\ k = Len(opp) \/ SizeSum(opp, k + 1) > f
      rest == SubSeq(opp, j + 1, Len(opp))
  IN IF SizeSum(opp, j) = f THEN rest
     ELSE [rest EXCEPT ![1].size = @ - (f - SizeSum(opp, j))]

PlaceOutcomeAsSpecified(trader, side, is_yes, price, size) ==
  LET r == place_order(Accounts, trader, side, is_yes, price, size, now)
      eff == effective_order(side, is_yes, price)
      opp == IF eff.side = 0 THEN Asks ELSE Bids
      own == IF eff.side = 0 THEN Bids ELSE Asks
      opp2 == IF eff.side = 0 THEN r.acc.order_book.yes_asks
              ELSE r.acc.order_book.yes_bids
      own2 == IF eff.side = 0 THEN r.acc.order_book.yes_bids
              ELSE r.acc.order_book.yes_asks
      pos == clob_position[trader]
      pos2 == r.acc.clob_position[trader]
      f == ExpectedFill(opp, eff, size)
  IN
  r.err = "Ok" =>
    /\ SumSeq([i \in 1..Len(r.fills) |-> r.fills[i][2]]) = f
    /\ IF eff.side = 0
       THEN pos2.yes_shares = pos.yes_shares + f /\ pos2.no_shares = pos.no_shares
       ELSE pos2.no_shares = pos.no_shares + f /\ pos2.yes_shares = pos.yes_shares
    /\ SizeSum(opp, Len(opp)) - SizeSum(opp2, Len(opp2)) = f
    /\ opp2 = ExpectedOpposite(opp, f)
    /\ IF size - f > 0
       THEN /\ Len(own2) = Len(own) + 1
            /\ \E i \in 0..Len(own) :
                 /\ own2[i + 1].owner = trader
                 /\ own2[i + 1].price = eff.price
                 /\ own2[i + 1].size = size - f
                 /\ VecRemove(own2, i) = own
       ELSE own2 = own

\* C4: an accepted order of size n at YES-denominated limit p is filled for
\* exactly the amount f obtained by consuming the opposite side from its head
\* while the price is within the limit; the taker's YES (bid taker) or NO (ask
\* taker) balance grows by f, the opposite side shrinks by f (consumed orders
\* removed, a partly consumed one reduced in place), and the remainder n - f
\* rests as one new order at p on the taker's own side.
C4_FillAsSpecified ==
  \A trader \in Traders, side \in Sides, is_yes \in BOOLEAN, price \in Prices,
     size \in Sizes :
    PlaceOutcomeAsSpecified(trader, side, is_yes, price, size)

\* a YES bid of 2 @ 6000 met a resting ask of 1 @ 4000: 1 YES share credited,
\* 1 @ 6000 resting
C4_Witness ==
  /\ last.op = "place_order"
  /\ last.err = "Ok"
  /\ last.fills = << <<4000, 1>> >>
  /\ clob_position[last.caller].yes_shares = 1
  /\ \E i \in 1..Len(Bids) :
       /\ Bids[i].owner = last.caller
       /\ Bids[i].price = 6000
       /\ Bids[i].size = 1
       /\ Bids[i].placed = 2

\* what the fills and the resting remainder cost at the makers' prices
MakerPriceCost(eff, fills, remaining) ==
  IF eff.side = 0
  THEN SumSeq([i \in 1..Len(fills) |-> fills[i][1] * fills[i][2]])
       + eff.price * remaining
  ELSE SumSeq([i \in 1..Len(fills) |-> (BPS_MAX - fills[i][1]) * fills[i][2]])
       + (BPS_MAX - eff.price) * remaining

\* C5: every fill executes at the resting order's price and the price
\* improvement accrues to the taker: the collateral an accepted order ends up
\* having paid is q * f for each fill of f shares at maker price q (bid taker;
\* (10000 - q) * f for an ask taker), plus the escrow of the resting remainder.
C5_TakerPaysMakerPrice ==
  \A trader \in Traders, side \in Sides, is_yes \in BOOLEAN, price \in Prices,
     size \in Sizes :
    LET r == place_order(Accounts, trader, side, is_yes, price, size, now)
        eff == effective_order(side, is_yes, price)
    IN r.err = "Ok" =>
         lamports[trader] - r.acc.lamports[trader]
           = MakerPriceCost(eff, r.fills, r.remaining)

\* C6: an order that rests in full and has not been filled is refunded by
\* cancel_order, called by its owner, exactly the collateral place_order
\* escrowed for it, and leaves the book.
CancelRoundTrip(is_bid, i) ==
  LET orders == IF is_bid THEN Bids ELSE Asks
      o == orders[i]
      r == cancel_order(Accounts, o.owner, is_bid, i - 1)
      orders2 == IF is_bid THEN r.acc.order_book.yes_bids
                 ELSE r.acc.order_book.yes_asks
      others2 == IF is_bid THEN r.acc.order_book.yes_asks
                 ELSE r.acc.order_book.yes_bids
  IN
  o.size = o.placed =>
    /\ r.err = "Ok"
    /\ r.paid = o.escrow
    /\ r.acc.lamports[o.owner] = lamports[o.owner] + o.escrow
    /\ r.acc.lamports[VaultAcct] = lamports[VaultAcct] - o.escrow
    /\ orders2 = VecRemove(orders, i - 1)
    /\ others2 = (IF is_bid THEN Asks ELSE Bids)

C6_CancelRefundsEscrow ==
  /\ \A i \in 1..Len(Bids) : CancelRoundTrip(TRUE, i)
  /\ \A i \in 1..Len(Asks) : CancelRoundTrip(FALSE, i)

\* a NO order that rested in full was cancelled and its escrow refunded
C6_Witness ==
  /\ last.op = "cancel_order"
  /\ last.err = "Ok"
  /\ last.paid = 6000 * 2
  /\ lamports[last.caller] = ClobWallets[last.caller]

AccountVars == <<market, position, clob_market, order_book, clob_position, lamports>>

SecondResolveFails(caller, winning_outcome) ==
  LET r == resolve_market(Accounts, caller, winning_outcome) IN
  market.resolved => r.err = "MarketAlreadyResolved" /\ r.acc.market = market

\* a resolve_market call on an unresolved market with an index out of range
OutOfRangeFailsWith(caller, winning_outcome, err) ==
  LET r == resolve_market(Accounts, caller, winning_outcome) IN
  (~market.resolved /\ ~(winning_outcome < market.outcomes)) =>
    r.err = err /\ ~r.acc.market.resolved

ResolvedStaysResolved ==
  market.resolved =>
    market'.resolved /\ market'.winning_outcome = market.winning_outcome

\* C8 as stated: once resolved, every resolve_market call fails with
\* MarketAlreadyResolved; on an unresolved market every call with an index >=
\* the number of outcomes fails with InvalidOutcome and leaves it unresolved.
C8_AsStated ==
  \A caller \in Users, winning_outcome \in OutcomeIndexes :
    /\ SecondResolveFails(caller, winning_outcome)
    /\ OutOfRangeFailsWith(caller, winning_outcome, "InvalidOutcome")

\* C8, amended: once resolved, every resolve_market call fails with
\* MarketAlreadyResolved and the winning outcome never changes; on an
\* unresolved market a call by the authority with an index >= the number of
\* outcomes fails with InvalidOutcome, a call by anyone else with such an index
\* fails with Unauthorized, and both leave the market unresolved.
C8_ResolveOneShot ==
  /\ [](\A caller \in Users, winning_outcome \in OutcomeIndexes :
          /\ SecondResolveFails(caller, winning_outcome)
          /\ OutOfRangeFailsWith(caller, winning_outcome,
               IF caller = market.authority THEN "InvalidOutcome"
               ELSE "Unauthorized"))
  /\ [][ResolvedStaysResolved]_vars

\* a second resolve_market by the authority was rejected
C8_Witness ==
  /\ market.resolved
  /\ last.op = "resolve_market"
  /\ last.caller = market.authority
  /\ last.err = "MarketAlreadyResolved"

\* C9 as stated: every resolve_market and resolve_clob_market call by someone
\* other than the market's authority fails with Unauthorized, whatever the
\* resolved flag and the argument, and changes nothing.
C9_AsStated ==
  \A caller \in Users, winning_outcome \in OutcomeIndexes,
     winning_side \in WinningSides :
    LET r == resolve_market(Accounts, caller, winning_outcome)
        rc == resolve_clob_market(Accounts, caller, winning_side)
    IN
    /\ caller # market.authority =>
         r.err = "Unauthorized" /\ r.acc = Accounts
    /\ caller # clob_market.authority =>
         rc.err = "Unauthorized" /\ rc.acc = Accounts

OnlyAuthorityResolves ==
  /\ (~market.resolved /\ market'.resolved) =>
       last'.op = "resolve_market" /\ last'.caller = market.authority
  /\ (~clob_market.resolved /\ clob_market'.resolved) =>
       last'.op = "resolve_clob_market" /\ last'.caller = clob_market.authority

\* C9, amended: every resolve_market and resolve_clob_market call by someone
\* other than the market's authority is rejected and changes nothing: with
\* Unauthorized when the market is unresolved (and, for the CLOB market, the
\* side is 0 or 1), with MarketAlreadyResolved / AlreadyResolved when the market
\* is resolved, and for the CLOB market with InvalidOutcome when the side is
\* above 1; a market becomes resolved only by a call of its authority.
C9_OnlyAuthorityResolves ==
  /\ [](\A caller \in Users, winning_outcome \in OutcomeIndexes,
           winning_side \in WinningSides :
          LET r == resolve_market(Accounts, caller, winning_outcome)
              rc == resolve_clob_market(Accounts, caller, winning_side)
          IN
          /\ caller # market.authority =>
               /\ r.err = IF market.resolved THEN "MarketAlreadyResolved"
                          ELSE "Unauthorized"
               /\ r.acc = Accounts
          /\ caller # clob_market.authority =>
               /\ rc.err = IF winning_side > 1 THEN "InvalidOutcome"
                           ELSE IF clob_market.resolved THEN "AlreadyResolved"
                           ELSE "Unauthorized"
               /\ rc.acc = Accounts)
  /\ [][OnlyAuthorityResolves]_vars

\* both markets are resolved and a trader's resolve_clob_market was rejected
C9_Witness ==
  /\ market.resolved
  /\ clob_market.resolved
  /\ last.op = "resolve_clob_market"
  /\ last.caller \in Traders
  /\ last.err = "AlreadyResolved"

Winner == market.winning_outcome[1] + 1

ClaimOutcome(claimer) ==
  LET r == claim_winnings(Accounts, claimer) IN
  /\ ~market.resolved => r.err = "MarketNotResolved"
  /\ r.err = "Ok" => r.acc.position[claimer].shares[Winner] = 0
  /\ (market.resolved /\ position[claimer].shares[Winner] = 0) =>
       /\ r.err = "NoWinningShares"
       /\ r.paid = 0
       /\ r.acc = Accounts

ClaimedStaysClaimed ==
  \A claimer \in Traders :
    (/\ market.resolved
     /\ position[claimer].owner = claimer
     /\ position[claimer].shares[Winner] = 0) =>
      /\ market'.winning_outcome = market.winning_outcome
      /\ position'[claimer].shares[Winner] = 0

\* C10: claim_winnings on an unresolved market fails with MarketNotResolved;
\* a successful claim_winnings leaves the position's winning-outcome balance
\* at 0, the balance stays 0 whatever is called next, and every claim_winnings
\* on a position whose winning balance is 0 fails with NoWinningShares and
\* pays nothing.
C10_ClaimSingleUse ==
  /\ [](\A claimer \in Traders :
          position[claimer].owner = claimer => ClaimOutcome(claimer))
  /\ [][ClaimedStaysClaimed]_vars

\* t1, who held the whole winning pool, has claimed it and claims again
C10_Witness ==
  /\ market.resolved
  /\ last.op = "claim_winnings"
  /\ last.caller = "t1"
  /\ last.err = "NoWinningShares"
  /\ market.outcome_pools[Winner] > 0
  /\ position["t2"].shares = << >>
  /\ lamports["t1"] > PariFunds - market.total_pool

\* the position's balance of the winning outcome, the gross payout and the fee
WinnerShares(claimer) == position[claimer].shares[Winner]
GrossPayout(claimer) ==
  (WinnerShares(claimer) * market.total_pool) \div market.outcome_pools[Winner]
Fee(claimer) == GrossPayout(claimer) \div 50

ClaimPaysNet(claimer) ==
  LET r == claim_winnings(Accounts, claimer)
      net == GrossPayout(claimer) - Fee(claimer)
  IN r.err = "Ok" =>
       /\ WinnerShares(claimer) > 0
       /\ market.outcome_pools[Winner] > 0
       /\ r.paid = net
       /\ r.acc.lamports[claimer] = lamports[claimer] + net
       /\ r.acc.lamports[MarketAcct] = lamports[MarketAcct] - net
       /\ \A a \in AllAccts \ {claimer, MarketAcct} : r.acc.lamports[a] = lamports[a]
       /\ r.acc.market = market

ClaimMovesNet ==
  (last'.op = "claim_winnings" /\ last'.err = "Ok") =>
    /\ lamports'[last'.caller] = lamports[last'.caller] + last'.paid
    /\ lamports'[MarketAcct] = lamports[MarketAcct] - last'.paid
    /\ last'.paid = GrossPayout(last'.caller) - Fee(last'.caller)

\* C11: a successful claim_winnings by a position holding s > 0 shares of the
\* winning outcome w moves net = payout - payout div 50 lamports from the
\* market to the claimer, where payout = floor(s * total_pool /
\* outcome_pools[w]); the fee payout div 50 is truncated and is not moved, so it
\* stays with the market.
C11_ClaimPaysNet ==
  /\ [](\A claimer \in Traders :
          position[claimer].owner = claimer => ClaimPaysNet(claimer))
  /\ [][ClaimMovesNet]_vars

\* pools [300, 700] resolved to outcome 0: the holder of 150 shares was paid
\* 500 - 10 = 490 and the market keeps the other 510
C11_Witness ==
  /\ market.outcome_pools = <<300, 700>>
  /\ market.winning_outcome = Some(0)
  /\ last.op = "claim_winnings"
  /\ last.err = "Ok"
  /\ last.paid = 490
  /\ lamports[MarketAcct] = 510

\* the balance a position holds on the winning side of the resolved CLOB market
WonShares(claimer) ==
  IF clob_market.winning_side = Some(0)
  THEN clob_position[claimer].yes_shares
  ELSE clob_position[claimer].no_shares

ClobClaimOutcome(claimer) ==
  LET r == claim_clob_winnings(Accounts, claimer)
      won == WonShares(claimer)
  IN
  /\ ~clob_market.resolved => r.err = "NotResolved" /\ r.acc = Accounts
  /\ (clob_market.resolved /\ won = 0) =>
       r.err = "NoWinnings" /\ r.paid = 0 /\ r.acc = Accounts
  /\ (clob_market.resolved /\ won > 0) =>
       /\ r.err = "Ok"
       /\ r.paid = won * SHARE_PAYOUT
       /\ r.acc.lamports[claimer] = lamports[claimer] + won * SHARE_PAYOUT
       /\ r.acc.lamports[VaultAcct] = lamports[VaultAcct] - won * SHARE_PAYOUT
       /\ r.acc.clob_position[claimer].yes_shares = 0
       /\ r.acc.clob_position[claimer].no_shares = 0
       /\ r.acc.order_book = order_book
       /\ r.acc.clob_market = clob_market

ClobClaimedStaysClaimed ==
  \A claimer \in Traders :
    (/\ clob_market.resolved
     /\ clob_position[claimer].owner = claimer
     /\ WonShares(claimer) = 0) =>
      /\ clob_market'.winning_side = clob_market.winning_side
      /\ clob_position'[claimer].yes_shares = clob_position[claimer].yes_shares
      /\ clob_position'[claimer].no_shares = clob_position[claimer].no_shares

\* C12: claim_clob_winnings fails with NotResolved on an unresolved market
\* and with NoWinnings when the position holds nothing on the winning side;
\* otherwise it pays (shares on the winning side) * SHARE_PAYOUT from the vault
\* and sets yes_shares and no_shares to 0; a position without winning shares
\* never gets any again, so a second claim fails with NoWinnings.
C12_ClobClaim ==
  /\ [](\A claimer \in Traders :
          clob_position[claimer].owner = claimer => ClobClaimOutcome(claimer))
  /\ [][ClobClaimedStaysClaimed]_vars

\* a trader who was paid for winning shares claims again and is rejected
C12_Witness ==
  /\ clob_market.resolved
  /\ last.op = "claim_clob_winnings"
  /\ last.err = "NoWinnings"
  /\ lamports[last.caller] > ClobWallets[last.caller]
  /\ clob_position[last.caller].yes_shares = 0
  /\ clob_position[last.caller].no_shares = 0

\* the errors of the checks of lines 192-199 that an order fails
FailedChecks(price, size) ==
  (IF ~(0 < price /\ price < 10000) THEN {"InvalidPrice"} ELSE {})
  \cup (IF ~(size > 0) THEN {"InvalidSize"} ELSE {})
  \cup (IF clob_market.resolved THEN {"MarketResolved"} ELSE {})
  \cup (IF ~(now < clob_market.resolution_time) THEN {"MarketExpired"} ELSE {})

ValidatedFirst(trader, side, is_yes, price, size) ==
  LET r == place_order(Accounts, trader, side, is_yes, price, size, now)
      failed == FailedChecks(price, size)
  IN
  /\ r.err = "Ok" => failed = {}
  /\ failed # {} =>
       /\ r.err \in failed
       /\ r.acc = Accounts
       /\ r.paid = 0
       /\ r.fills = << >>

\* on a resolved or expired market nothing is filled, added or escrowed
ClosedMarketTakesNoOrder ==
  (clob_market.resolved \/ ~(now < clob_market.resolution_time)) =>
    /\ last'.op = "place_order" =>
         /\ last'.err \in {"InvalidPrice", "InvalidSize", "MarketResolved",
                           "MarketExpired"}
         /\ UNCHANGED AccountVars
    /\ Len(order_book'.yes_bids) <= Len(Bids)
    /\ Len(order_book'.yes_asks) <= Len(Asks)
    /\ \A t \in Traders :
         /\ clob_position'[t].yes_shares <= clob_position[t].yes_shares
         /\ clob_position'[t].no_shares <= clob_position[t].no_shares
    /\ lamports'[VaultAcct] <= lamports[VaultAcct]

\* C13: place_order succeeds only if 0 < price < 10000, size > 0, the market
\* is unresolved and now < resolution_time; an order failing one of these is
\* rejected with the error of a failed check (InvalidPrice, InvalidSize,
\* MarketResolved, MarketExpired) with nothing escrowed and nothing matched;
\* once the market is resolved or expired no order is filled or added.
C13_ValidatedFirst ==
  /\ [](\A trader \in Traders, side \in Sides, is_yes \in BOOLEAN,
           in \in (Prices \X Sizes) \cup BadOrderInputs :
          ValidatedFirst(trader, side, is_yes, in[1], in[2]))
  /\ [][ClosedMarketTakesNoOrder]_vars

\* an order that would have matched a resting order was rejected as expired
C13_Witness ==
  /\ last.op = "place_order"
  /\ last.err = "MarketExpired"
  /\ ~clob_market.resolved
  /\ Len(Bids) + Len(Asks) > 0

\* a cancel_order call against the book as it is
CancelOutcome(trader, is_bid, order_index) ==
  LET r == cancel_order(Accounts, trader, is_bid, order_index)
      orders == IF is_bid THEN Bids ELSE Asks
      orders2 == IF is_bid THEN r.acc.order_book.yes_bids
                 ELSE r.acc.order_book.yes_asks
      others2 == IF is_bid THEN r.acc.order_book.yes_asks
                 ELSE r.acc.order_book.yes_bids
      o == orders[order_index + 1]
      refund == IF is_bid THEN o.price * o.size ELSE (10000 - o.price) * o.size
  IN
  IF order_index >= Len(orders)
  THEN r.err = "InvalidOrderIndex" /\ r.acc = Accounts /\ r.paid = 0
  ELSE IF o.owner # trader
  THEN r.err = "NotOrderOwner" /\ r.acc = Accounts /\ r.paid = 0
  ELSE
    /\ r.err = "Ok"
    /\ Len(orders2) = Len(orders) - 1
    /\ \A k \in 1..order_index : orders2[k] = orders[k]
    /\ \A k \in (order_index + 1)..Len(orders2) : orders2[k] = orders[k + 1]
    /\ others2 = (IF is_bid THEN Asks ELSE Bids)
    /\ r.paid = refund
    /\ r.acc.lamports[trader] = lamports[trader] + refund
    /\ r.acc.lamports[VaultAcct] = lamports[VaultAcct] - refund
    /\ r.acc.clob_position = clob_position

\* C14: cancel_order fails with InvalidOrderIndex for an index >= the length
\* of the chosen side and with NotOrderOwner for a caller who does not own the
\* order at the index, leaving book and vault as they were; called by the
\* owner it removes exactly that order, keeps all other orders of both sides
\* in their order, and refunds price * size (bid) or (10000 - price) * size
\* (ask) of the order's remaining size from the vault.
C14_CancelByOwnerOnly ==
  \A trader \in Traders, is_bid \in BOOLEAN, order_index \in OrderIndexes :
    CancelOutcome(trader, is_bid, order_index)

\* a bid of 2 @ 6000 was filled for 1 share, its owner cancelled the rest
\* and got 6000 back
C14_Witness ==
  /\ last.op = "cancel_order"
  /\ last.err = "Ok"
  /\ last.paid = 6000
  /\ clob_position[last.caller].yes_shares = 1
  /\ clob_position[last.caller].no_shares = 0
  /\ lamports[last.caller] = ClobWallets[last.caller] - 6000
  /\ Len(Bids) + Len(Asks) > 0

\* place_order against a side that may be full
FullSideOutcome(trader, side, is_yes, price, size) ==
  LET r == place_order(Accounts, trader, side, is_yes, price, size, now)
      eff == effective_order(side, is_yes, price)
      opp == IF eff.side = 0 THEN Asks ELSE Bids
      own == IF eff.side = 0 THEN Bids ELSE Asks
      f == ExpectedFill(opp, eff, size)
  IN
  r.err \in {"Ok", "OrderBookFull"} =>
    (r.err = "OrderBookFull" <=> (size - f > 0 /\ Len(own) >= 50))

\* C15: no side of the book ever holds more than 50 orders; an order that
\* passes validation and escrow fails with OrderBookFull exactly when its
\* unfilled remainder is positive and its own side already holds 50 orders, so
\* an order filled in full succeeds on a full side.
C15_SidesBounded ==
  /\ Len(Bids) <= 50
  /\ Len(Asks) <= 50
  /\ \A trader \in Traders, side \in Sides, is_yes \in BOOLEAN, price \in Prices,
        size \in Sizes :
       FullSideOutcome(trader, side, is_yes, price, size)

\* with 50 bids resting, a bid was filled in full by a resting ask and accepted
C15_Witness ==
  /\ last.op = "place_order"
  /\ last.err = "Ok"
  /\ last.fills # << >>
  /\ Len(Bids) = 50
  /\ Bids[1].owner = Maker
  /\ clob_position[last.caller].yes_shares > 0

\* the winning index is set exactly when the market is resolved, and in range
WinnerSetIffResolved ==
  /\ market.winning_outcome # None <=> market.resolved
  /\ market.resolved =>
       /\ Len(market.winning_outcome) = 1
       /\ market.winning_outcome[1] \in 0..(market.outcomes - 1)
  /\ clob_market.winning_side # None <=> clob_market.resolved
  /\ clob_market.resolved =>
       /\ Len(clob_market.winning_side) = 1
       /\ clob_market.winning_side[1] \in {0, 1}

ResolutionIsFinal ==
  /\ market.resolved =>
       /\ market'.resolved
       /\ market'.winning_outcome = market.winning_outcome
       /\ market'.outcome_pools = market.outcome_pools
       /\ market'.total_pool = market.total_pool
  /\ clob_market.resolved =>
       /\ clob_market'.resolved
       /\ clob_market'.winning_side = clob_market.winning_side

\* C16: in both market kinds the winning outcome / side is Some exactly when
\* resolved is true and then holds an index in range (below the number of
\* outcomes; 0 or 1); once a market is resolved, no buy, resolve or claim call
\* changes its resolved flag, its winning outcome, its outcome_pools or its
\* total_pool.
C16_ResolutionTerminal ==
  /\ []WinnerSetIffResolved
  /\ [][ResolutionIsFinal]_vars

\* both markets are resolved, the pools hold stakes, and a later buy_shares
\* was rejected
C16_Witness ==
  /\ market.resolved
  /\ clob_market.resolved
  /\ market.total_pool > 0
  /\ last.op = "buy_shares"
  /\ last.err = "MarketResolved"

\* prices p for which both p and 10000 - p are tried
MirrorPrices == Prices \cup {10000 - p : p \in Prices}

\* a NO order and the YES order it stands for
NoOrderAsYesOrder(trader, side, price, size) ==
  LET no == place_order(Accounts, trader, side, FALSE, price, size, now)
      yes == place_order(Accounts, trader, 1 - side, TRUE, 10000 - price, size, now)
      escrow == IF side = 0 THEN price * size ELSE (10000 - price) * size
  IN
  /\ no.err = yes.err
  /\ no.paid = yes.paid
  /\ no.fills = yes.fills
  /\ no.remaining = yes.remaining
  /\ no.acc.clob_position = yes.acc.clob_position
  /\ no.acc.order_book = yes.acc.order_book
  /\ no.acc.lamports = yes.acc.lamports
  /\ no.err = "Ok" =>
       /\ no.paid = escrow
       /\ no.acc.lamports[VaultAcct] = lamports[VaultAcct] + escrow
       /\ no.acc.lamports[trader] = lamports[trader] - escrow

\* C17: in every book state a NO order at price p on side s with size n gives
\* the same result as the YES order at 10000 - p on the other side with size
\* n: same error or success, same escrow, same fills, same positions, same
\* book; an accepted NO bid escrows p * n and an accepted NO ask (10000 - p) * n.
C17_NoIsMirroredYes ==
  \A trader \in Traders, side \in Sides, price \in MirrorPrices, size \in Sizes :
    NoOrderAsYesOrder(trader, side, price, size)

\* a NO bid of 1 @ 6000 escrowed 6000, was matched against a resting YES bid
\* at 6000 as the YES ask at 4000 it stands for, and credited 1 NO share
C17_Witness ==
  /\ last.op = "place_order"
  /\ last.err = "Ok"
  /\ last.paid = 6000
  /\ last.fills = << <<6000, 1>> >>
  /\ clob_position[last.caller].no_shares = 1
  /\ clob_position[last.caller].yes_shares = 0

\* ---- the results of each operation in unbounded arithmetic
BuyNoWrap(buyer, outcome_index, amount, overflow_checks) ==
  LET r == buy_shares(Accounts, buyer, outcome_index, amount, overflow_checks)
      i == outcome_index + 1
      held == IF position[buyer].shares = << >> THEN 0
              ELSE position[buyer].shares[i]
  IN
  outcome_index < market.outcomes =>
    /\ (\/ market.outcome_pools[i] + amount > U64_MAX
        \/ market.total_pool + amount > U64_MAX
        \/ held + amount > U64_MAX) =>
         r.err # "Ok"
    /\ r.err = "Ok" =>
         /\ r.acc.market.outcome_pools[i] = market.outcome_pools[i] + amount
         /\ r.acc.market.total_pool = market.total_pool + amount
         /\ r.acc.position[buyer].shares[i] = held + amount

PlaceNoWrap(trader, side, is_yes, price, size) ==
  LET r == place_order(Accounts, trader, side, is_yes, price, size, now)
      collateral == IF side = 0 THEN price * size ELSE (10000 - price) * size
      filled == SumSeq([i \in 1..Len(r.fills) |-> r.fills[i][2]])
      pos == clob_position[trader]
      pos2 == r.acc.clob_position[trader]
  IN
  /\ collateral > U64_MAX =>
       /\ r.err # "Ok"
       /\ r.acc = Accounts
       /\ FailedChecks(price, size) = {} => r.err = "Overflow"
  /\ r.err = "Ok" =>
       /\ r.paid = collateral
       /\ r.acc.lamports[VaultAcct] = lamports[VaultAcct] + collateral
       /\ pos2.yes_shares + pos2.no_shares
            = pos.yes_shares + pos.no_shares + filled

CancelNoWrap(trader, is_bid, order_index) ==
  LET r == cancel_order(Accounts, trader, is_bid, order_index)
      o == (IF is_bid THEN Bids ELSE Asks)[order_index + 1]
  IN r.err = "Ok" =>
       r.paid = IF is_bid THEN o.price * o.size ELSE (10000 - o.price) * o.size

ClaimNoWrap(claimer) ==
  LET r == claim_winnings(Accounts, claimer) IN
  r.err = "Ok" =>
    /\ GrossPayout(claimer) <= U64_MAX
    /\ r.paid = GrossPayout(claimer) - Fee(claimer)

ClobClaimNoWrap(claimer) ==
  LET r == claim_clob_winnings(Accounts, claimer) IN
  r.err = "Ok" => r.paid = WonShares(claimer) * SHARE_PAYOUT

\* every stored quantity is a u64
StoredInRange ==
  /\ market.total_pool \in 0..U64_MAX
  /\ \A i \in 1..market.outcomes : market.outcome_pools[i] \in 0..U64_MAX
  /\ \A u \in Holders :
       /\ \A i \in 1..Len(position[u].shares) :
            position[u].shares[i] \in 0..U64_MAX
       /\ clob_position[u].yes_shares \in 0..U64_MAX
       /\ clob_position[u].no_shares \in 0..U64_MAX
  /\ \A a \in AllAccts : lamports[a] \in 0..U64_MAX
  /\ \A i \in 1..Len(Bids) : Bids[i].size \in 1..U64_MAX
  /\ \A i \in 1..Len(Asks) : Asks[i].size \in 1..U64_MAX

AsGoodAs(is_bid, o, p) == IF is_bid THEN o.price >= p ELSE o.price <= p

\* an order that rests goes behind every resting order with a better or the
\* same price and ahead of every order with a worse price
InsertedBehindEquals(trader, side, is_yes, price, size) ==
  LET r == place_order(Accounts, trader, side, is_yes, price, size, now)
      eff == effective_order(side, is_yes, price)
      own == IF eff.side = 0 THEN Bids ELSE Asks
      own2 == IF eff.side = 0 THEN r.acc.order_book.yes_bids
              ELSE r.acc.order_book.yes_asks
  IN
  (r.err = "Ok" /\ r.remaining > 0) =>
    \E i \in 0..Len(own) :
      /\ Len(own2) = Len(own) + 1
      /\ SubSeq(own2, 1, i) = SubSeq(own, 1, i)
      /\ SubSeq(own2, i + 2, Len(own2)) = SubSeq(own, i + 1, Len(own))
      /\ own2[i + 1].owner = trader
      /\ own2[i + 1].price = eff.price
      /\ own2[i + 1].timestamp = now
      /\ \A k \in 1..i : AsGoodAs(eff.side = 0, own[k], eff.price)
      /\ \A k \in (i + 1)..Len(own) : ~AsGoodAs(eff.side = 0, own[k], eff.price)

\* the fills of one call go to the resting orders in queue order: the first j
\* orders are consumed in full, the next one may lose part of its size, all
\* others are untouched
FillsFromHead(trader, side, is_yes, price, size) ==
  LET r == place_order(Accounts, trader, side, is_yes, price, size, now)
      eff == effective_order(side, is_yes, price)
      opp == IF eff.side = 0 THEN Asks ELSE Bids
      opp2 == IF eff.side = 0 THEN r.acc.order_book.yes_asks
              ELSE r.acc.order_book.yes_bids
      j == Len(opp) - Len(opp2)
  IN
  r.err = "Ok" =>
    /\ j \in 0..Len(opp)
    /\ Len(r.fills) \in {j, j + 1}
    /\ \A k \in 1..Len(r.fills) : r.fills[k][1] = opp[k].price
    /\ \A k \in 1..j : r.fills[k][2] = opp[k].size
    /\ \A k \in 2..Len(opp2) : opp2[k] = opp[j + k]
    /\ Len(opp2) > 0 =>
         IF Len(r.fills) = j + 1
         THEN /\ opp2[1] = [opp[j + 1] EXCEPT !.size = @ - r.fills[j + 1][2]]
              /\ opp2[1].size > 0
         ELSE opp2[1] = opp[j + 1]

\* along a side, orders at the same price rest in the order of their arrival
EqualPricesInArrivalOrder ==
  /\ \A i, j \in 1..Len(Bids) :
       (i < j /\ Bids[i].price = Bids[j].price) =>
         Bids[i].timestamp <= Bids[j].timestamp
  /\ \A i, j \in 1..Len(Asks) :
       (i < j /\ Asks[i].price = Asks[j].price) =>
         Asks[i].timestamp <= Asks[j].timestamp

\* cancel_order keeps the other orders in their order
CancelKeepsQueue(trader, is_bid, order_index) ==
  LET r == cancel_order(Accounts, trader, is_bid, order_index)
      orders == IF is_bid THEN Bids ELSE Asks
      orders2 == IF is_bid THEN r.acc.order_book.yes_bids
                 ELSE r.acc.order_book.yes_asks
  IN r.err = "Ok" =>
       /\ SubSeq(orders2, 1, order_index) = SubSeq(orders, 1, order_index)
       /\ SubSeq(orders2, order_index + 1, Len(orders2))
            = SubSeq(orders, order_index + 2, Len(orders))

\* C19: price-time priority: the fills of a place_order go to the head of
\* the opposite side and on in queue order, so an order is filled only when
\* every order ahead of it has been consumed; an order that rests is inserted
\* behind all resting orders with a better or the same price; cancel_order
\* keeps the queue order; hence orders at one price rest, and are filled, in
\* the order they arrived.
C19_PriceTimePriority ==
  /\ EqualPricesInArrivalOrder
  /\ \A trader \in Traders, side \in Sides, is_yes \in BOOLEAN, price \in Prices,
        size \in Sizes :
       /\ InsertedBehindEquals(trader, side, is_yes, price, size)
       /\ FillsFromHead(trader, side, is_yes, price, size)
  /\ \A trader \in Traders, is_bid \in BOOLEAN, order_index \in OrderIndexes :
       CancelKeepsQueue(trader, is_bid, order_index)

\* two asks rested at 4000, t1's ahead of t2's; t1's bid took one share and
\* it came from t1's own ask at the head: t2's ask, placed later, rests in full
C19_Witness ==
  /\ last.op = "place_order"
  /\ last.err = "Ok"
  /\ last.caller = "t1"
  /\ last.fills = << <<4000, 1>> >>
  /\ clob_position["t1"].yes_shares = 1
  /\ Len(Asks) = 1
  /\ Asks[1].owner = "t2"
  /\ Asks[1].price = 4000
  /\ Asks[1].size = Asks[1].placed
  /\ Len(Bids) = 0
  /\ lamports["t1"] = ClobFundsT1 - 2 * 6000

\* a holder never has more shares of an outcome than its pool, and no pool
\* exceeds the total
SharesWithinPools ==
  /\ \A i \in 1..market.outcomes : market.outcome_pools[i] <= market.total_pool
  /\ \A u \in Holders : \A i \in 1..Len(position[u].shares) :
       position[u].shares[i] <= market.outcome_pools[i]

\* the payout computation of a claim that passed the winner_shares > 0 check:
\* two u64 factors (their product fits the u128), a positive divisor, and a
\* quotient of at most total_pool, which the cast to u64 leaves as it is
PayoutCannotFail(claimer) ==
  LET w == market.winning_outcome[1] + 1
      winner_shares == position[claimer].shares[w]
      po == payout_of(winner_shares, market.total_pool, market.outcome_pools[w])
  IN
  (market.resolved /\ winner_shares > 0) =>
    /\ market.outcome_pools[w] > 0
    /\ winner_shares <= U64_MAX
    /\ market.total_pool <= U64_MAX
    /\ ~po.panic
    /\ po.val = (winner_shares * market.total_pool) \div market.outcome_pools[w]
    /\ po.val <= market.total_pool
    /\ claim_winnings(Accounts, claimer).err = "Ok"

\* C20: in every reachable parimutuel state a position's balance of an
\* outcome is at most that outcome's pool, which is at most total_pool; so a
\* claim that passes the winner_shares > 0 check divides by a positive pool,
\* multiplies within the widened range, gets a payout of at most total_pool
\* that the cast to u64 does not truncate, and succeeds.
C20_PayoutCannotFail ==
  /\ SharesWithinPools
  /\ \A claimer \in Traders :
       position[claimer].owner = claimer => PayoutCannotFail(claimer)

\* the only holder of the winning outcome was paid on a payout equal to the
\* whole total_pool: 850, less the fee of 17
C20_Witness ==
  /\ market.resolved
  /\ market.outcome_pools[Winner] = 150
  /\ market.total_pool = 850
  /\ last.op = "claim_winnings"
  /\ last.err = "Ok"
  /\ last.paid = 833

\* ------------------------------------------------------------------ C21
\* what cancel_order would hand back for every resting order
RestingCollateral ==
  SumSeq([i \in 1..Len(Bids) |-> Bids[i].price * Bids[i].size])
  + SumSeq([i \in 1..Len(Asks) |-> (10000 - Asks[i].price) * Asks[i].size])

\* YES and NO shares that have not been claimed, over all positions
UnclaimedShares ==
  LET RECURSIVE total(_)
      total(us) == IF us = {} THEN 0
                   ELSE LET u == CHOOSE x \in us : TRUE
                        IN clob_position[u].yes_shares
                           + clob_position[u].no_shares + total(us \ {u})
  IN total(Holders)

\* the vault's balance above rent: escrowed by place_order, less the cancel
\* refunds and the claim payouts
VaultCollateral == lamports[VaultAcct]

\* C21: in every reachable state of a CLOB market the collateral in the vault
\* covers the refundable collateral of all resting orders (price * size for a
\* bid, (10000 - price) * size for an ask) plus SHARE_PAYOUT for every
\* unclaimed YES and NO share, so refunds and payouts never exceed what was
\* escrowed.
C21_VaultSolvent ==
  VaultCollateral >= RestingCollateral + SHARE_PAYOUT * UnclaimedShares

\* after a fill and a paid claim with an order still resting, the vault holding
\* exactly what that order's cancellation would refund
C21_Witness ==
  /\ last.op = "claim_clob_winnings"
  /\ last.err = "Ok"
  /\ last.paid > 0
  /\ Len(Bids) + Len(Asks) > 0
  /\ VaultCollateral = RestingCollateral

\* ------------------------------------------------------------------ C22
\* what has left the market's custody: deposits less the balance above rent
PaidOut == market.total_pool - lamports[MarketAcct]

\* the market's balance grows by each accepted buy together with total_pool
\* and shrinks by the net payout of each successful claim, and by nothing else,
\* so PaidOut is the sum of the net payouts of the successful claims
CustodyLedger ==
  /\ (last'.op = "buy_shares" /\ last'.err = "Ok") =>
       /\ market'.total_pool = market.total_pool + last'.paid
       /\ lamports'[MarketAcct] = lamports[MarketAcct] + last'.paid
  /\ (last'.op = "claim_winnings" /\ last'.err = "Ok") =>
       /\ market'.total_pool = market.total_pool
       /\ lamports'[MarketAcct] = lamports[MarketAcct] - last'.paid
       /\ last'.paid >= 0
  /\ ~(last'.err = "Ok" /\ last'.op \in {"buy_shares", "claim_winnings"}) =>
       /\ market'.total_pool = market.total_pool
       /\ lamports'[MarketAcct] = lamports[MarketAcct]

\* the net payouts the positions with unclaimed winning shares are still owed
RECURSIVE OwedTo(_)
OwedTo(claimers) ==
  IF claimers = {} THEN 0
  ELSE LET c == CHOOSE x \in claimers : TRUE
           owed == IF /\ position[c].owner = c
                      /\ WinnerShares(c) > 0
                      /\ market.outcome_pools[Winner] > 0
                   THEN GrossPayout(c) - Fee(c)
                   ELSE 0
       IN owed + OwedTo(claimers \ {c})

PoolSolvent ==
  /\ PaidOut >= 0
  /\ PaidOut <= market.total_pool
  /\ market.resolved => PaidOut + OwedTo(Holders) <= market.total_pool

\* C22: whatever the traders buy and in whatever order the winners claim after
\* resolution, the net payouts of the successful claim_winnings calls add up to
\* at most total_pool, the total deposited by buy_shares, counting the claims
\* still to come; the market's custody never pays out more than was staked.
C22_PoolSolvent ==
  /\ []PoolSolvent
  /\ [][CustodyLedger]_vars

\* both traders won and have been paid, the second claim just now; the fees
\* stay behind
C22_Witness ==
  /\ last.op = "claim_winnings"
  /\ last.err = "Ok"
  /\ PaidOut > last.paid
  /\ last.paid > 0
  /\ \A t \in Traders : position[t].owner = t /\ WinnerShares(t) = 0
  /\ PaidOut < market.total_pool

\* ------------------------------------------------------------------ C23
\* what a place_order call that filled against resting orders leaves alone
FillFrame(trader, side, is_yes, price, size) ==
  LET r == place_order(Accounts, trader, side, is_yes, price, size, now)
      eff == effective_order(side, is_yes, price)
      opp == IF eff.side = 0 THEN Asks ELSE Bids
      opp2 == IF eff.side = 0 THEN r.acc.order_book.yes_asks
              ELSE r.acc.order_book.yes_bids
      f == SumSeq([i \in 1..Len(r.fills) |-> r.fills[i][2]])
      pos == clob_position[trader]
      pos2 == r.acc.clob_position[trader]
  IN
  (r.err = "Ok" /\ r.fills # << >>) =>
    \* every other position, the makers' included, is as it was
    /\ \A u \in Holders \ {trader} : r.acc.clob_position[u] = clob_position[u]
    \* nobody is refunded: the taker's collateral goes to the vault, and no
    \* other balance moves
    /\ r.acc.lamports[trader] = lamports[trader] - r.paid
    /\ r.acc.lamports[VaultAcct] = lamports[VaultAcct] + r.paid
    /\ \A a \in AllAccts \ {trader, VaultAcct} : r.acc.lamports[a] = lamports[a]
    \* the resting orders are taken from the head, reduced or removed, and
    \* are otherwise as they were
    /\ f > 0
    /\ opp2 = ExpectedOpposite(opp, f)
    \* the taker is credited the filled shares on the side of its order
    /\ pos2.owner = trader
    /\ IF eff.side = 0
       THEN pos2.yes_shares = pos.yes_shares + f /\ pos2.no_shares = pos.no_shares
       ELSE pos2.no_shares = pos.no_shares + f /\ pos2.yes_shares = pos.yes_shares
    /\ r.acc.clob_market = clob_market

FillStepFrame ==
  (last'.op = "place_order" /\ last'.err = "Ok" /\ last'.fills # << >>) =>
    /\ \A u \in Holders \ {last'.caller} :
         /\ clob_position'[u] = clob_position[u]
         /\ lamports'[u] = lamports[u]
    /\ lamports'[last'.caller] = lamports[last'.caller] - last'.paid

\* C23: a fill changes only the taker's ClobPosition: when place_order matches
\* against a resting order, the position of the order's owner is unchanged and
\* the owner is refunded nothing; the maker is affected only in that its
\* resting order is reduced or removed, and every other trader's position is
\* unchanged (the maker may be the taker itself, which is then credited as the
\* taker).
C23_FillTouchesTakerOnly ==
  /\ [](\A trader \in Traders, side \in Sides, is_yes \in BOOLEAN,
           price \in Prices, size \in Sizes :
          FillFrame(trader, side, is_yes, price, size))
  /\ [][FillStepFrame]_vars

\* t2 has just taken all of t1's resting order: t1's collateral is in the
\* vault and t1 holds no shares
C23_Witness ==
  /\ last.op = "place_order"
  /\ last.err = "Ok"
  /\ last.caller = "t2"
  /\ last.fills # << >>
  /\ Len(Bids) + Len(Asks) = 0
  /\ clob_position["t1"] = [owner |-> "t1", yes_shares |-> 0, no_shares |-> 0]
  /\ lamports["t1"] < ClobFundsT1
  /\ clob_position["t2"].yes_shares + clob_position["t2"].no_shares > 0
====
